---- MODULE Spec2Model ----
(***************************************************************************)
(* Model of the scroll synthesizer of arc-prize-2025:                      *)
(*   modules/scroll_core.py   Grid, op_ROT90/op_FLIP/op_TRANSPOSE/op_REMAP,*)
(*                            apply_scroll                                 *)
(*   modules/patcher_nova.py  palette, palette_similarity, _op_space,      *)
(*                            _infer_remap, score_prog, synthesize_scroll, *)
(*                            eval_scroll                                  *)
(*                                                                         *)
(* numpy arrays are modelled as views on buffers of a heap, so that an     *)
(* operation that writes through a view is visible in the array it was     *)
(* taken from.  Python dicts are sequences of <<key, value>> items in      *)
(* insertion order.  Scores are exact rationals [n, d] in lowest terms     *)
(* (the code computes them in IEEE doubles; 0.7 + 0.3 rounds to 1.0 there).*)
(***************************************************************************)
EXTENDS Integers, Sequences, FiniteSets, TLC

\* ------------------------------------------------------------------ bounds
MaxPairs == 1      \* training pairs per enumerated task
MaxBeam  == 2      \* beam widths 1..MaxBeam
MaxDepth == 2      \* depths 0..MaxDepth
MaxLen   == 2      \* steps per enumerated scroll (apply / score calls)

\* ----------------------------------------------------------------- helpers
Min(a, b) == IF a <= b THEN a ELSE b
Max(a, b) == IF a >= b THEN a ELSE b
Range(s) == {s[i] : i \in 1..Len(s)}
Take(s, n) == SubSeq(s, 1, Min(n, Len(s)))

RECURSIVE SumSeq(_)
SumSeq(s) == IF s = <<>> THEN 0 ELSE s[1] + SumSeq(Tail(s))

RECURSIVE Concat(_)
Concat(ss) == IF ss = <<>> THEN <<>> ELSE ss[1] \o Concat(Tail(ss))

RECURSIVE SortedSeq(_)
\* the elements of a finite set of integers, ascending (Python sorted())
SortedSeq(S) ==
  IF S = {} THEN <<>>
  ELSE LET m == CHOOSE x \in S : \A y \in S : x <= y
       IN <<m>> \o SortedSeq(S \ {m})

RECURSIVE Gcd(_, _)
Gcd(a, b) == IF b = 0 THEN a ELSE Gcd(b, a % b)

\* ---------------------------------------------------------- rational scores
Reduce(n, d, g) == [n |-> n \div g, d |-> d \div g]
Frac(n, d) == Reduce(n, d, Gcd(n, d))
FAdd(a, b) == Frac(a.n * b.d + b.n * a.d, a.d * b.d)
FLess(a, b) == a.n * b.d < b.n * a.d
FLeq(a, b) == a.n * b.d <= b.n * a.d
FZero == Frac(0, 1)
FOne == Frac(1, 1)

\* ------------------------------------------------------------- Python dicts
\* a dict is a sequence of <<key, value>> items with distinct keys
DictGet(dct, key, default) ==
  IF \E i \in 1..Len(dct) : dct[i][1] = key
  THEN dct[CHOOSE i \in 1..Len(dct) : dct[i][1] = key][2]
  ELSE default
DictKeys(dct) == {dct[i][1] : i \in 1..Len(dct)}

\* ------------------------------------------------------------ numpy arrays
\* An array is a view [buf, h, w, off]: element (i, j) (1-based) is
\* heap[buf][off[(i-1)*w + j]].
Values(hp, a) == [n \in 1..(a.h * a.w) |-> hp[a.buf][a.off[n]]]
Shape(a) == <<a.h, a.w>>

np_array(hp, rows) ==
  [heap |-> Append(hp, Concat(rows)),
   arr |-> [buf |-> Len(hp) + 1, h |-> Len(rows), w |-> Len(rows[1]),
            off |-> [n \in 1..(Len(rows) * Len(rows[1])) |-> n]]]

np_copy(hp, a) ==
  [heap |-> Append(hp, Values(hp, a)),
   arr |-> [buf |-> Len(hp) + 1, h |-> a.h, w |-> a.w,
            off |-> [n \in 1..(a.h * a.w) |-> n]]]

np_flip(a, axis) ==
  [a EXCEPT !.off =
     [n \in 1..(a.h * a.w) |->
        LET i == ((n - 1) \div a.w) + 1
            j == ((n - 1) % a.w) + 1
        IN IF axis = 0 THEN a.off[(a.h - i) * a.w + j]
                       ELSE a.off[(i - 1) * a.w + (a.w + 1 - j)]]]

np_transpose(a) ==
  [buf |-> a.buf, h |-> a.w, w |-> a.h,
   off |-> [n \in 1..(a.h * a.w) |->
              LET i == ((n - 1) \div a.h) + 1
                  j == ((n - 1) % a.h) + 1
              IN a.off[(j - 1) * a.w + i]]]

np_rot90(a, k) ==
  CASE k = 0 -> a
    [] k = 1 -> np_transpose(np_flip(a, 1))
    [] k = 2 -> np_flip(np_flip(a, 0), 1)
    [] OTHER -> np_flip(np_transpose(a), 1)

np_unique(hp, a) == {hp[a.buf][a.off[n]] : n \in 1..(a.h * a.w)}
np_count(hp, a, c) == Cardinality({n \in 1..(a.h * a.w) : hp[a.buf][a.off[n]] = c})
np_array_equal(hp, a, b) == Shape(a) = Shape(b) /\ Values(hp, a) = Values(hp, b)

\* ------------------------------------------------------------- scroll_core
\* Grid(data, log): a frozen dataclass holding an array and a tuple of
\* descriptors.
\* Grid(arr, log) for an array just allocated: c is [heap, arr]
NewGrid(c, log) == [heap |-> c.heap, grid |-> [data |-> c.arr, log |-> log]]

Grid_from_list(hp, lst) == NewGrid(np_array(hp, lst), <<>>)

Rows(hp, a) ==
  [i \in 1..a.h |-> [j \in 1..a.w |-> hp[a.buf][a.off[(i - 1) * a.w + j]]]]

Grid_to_list(hp, g) == Rows(hp, g.data)

\* k = (k % 4 + 4) % 4
NormK(k) == ((k % 4) + 4) % 4

op_ROT90(hp, g, k) ==
  [heap |-> hp,
   grid |-> [data |-> np_rot90(g.data, NormK(k)),
             log |-> Append(g.log, <<"ROT90", NormK(k)>>)]]

op_FLIP(hp, g, axis) ==
  IF axis \notin {0, 1}
  THEN [raised |-> TRUE, heap |-> hp, grid |-> g]
  ELSE [raised |-> FALSE, heap |-> hp,
        grid |-> [data |-> np_flip(g.data, axis),
                  log |-> Append(g.log, <<"FLIP", axis>>)]]

op_TRANSPOSE(hp, g) ==
  NewGrid(np_copy(hp, np_transpose(g.data)), Append(g.log, <<"TRANSPOSE">>))

RECURSIVE RemapLoop(_, _, _, _)
\* for a, b in mapping.items(): out[g.data == a] = b
RemapLoop(hp, src, out, mapping) ==
  IF mapping = <<>> THEN hp
  ELSE RemapLoop(
         [hp EXCEPT ![out.buf] =
            [p \in 1..Len(hp[out.buf]) |->
               IF \E n \in 1..(src.h * src.w) :
                    hp[src.buf][src.off[n]] = mapping[1][1] /\ out.off[n] = p
               THEN mapping[1][2] ELSE hp[out.buf][p]]],
         src, out, Tail(mapping))

\* out = g.data.copy(), then the loop: c is the copy, [heap, arr]
RemapInto(c, g, mapping) ==
  [heap |-> RemapLoop(c.heap, g.data, c.arr, mapping),
   grid |-> [data |-> c.arr, log |-> Append(g.log, <<"REMAP", mapping>>)]]

\* faulty variant: the loop writes into g.data itself (out = g.data, no copy)
op_REMAP_inplace(hp, g, mapping) ==
  RemapInto([heap |-> hp, arr |-> g.data], g, mapping)

op_REMAP(hp, g, mapping) == RemapInto(np_copy(hp, g.data), g, mapping)

\* one iteration of apply_scroll's loop: the if/elif chain on step.get('op')
DispatchOn(op, hp, current, step) ==
  CASE op = "ROT90" ->
         [raised |-> FALSE] @@ op_ROT90(hp, current, DictGet(step, "k", 1))
    [] op = "FLIP" -> op_FLIP(hp, current, DictGet(step, "axis", 1))
    [] op = "TRANSPOSE" -> [raised |-> FALSE] @@ op_TRANSPOSE(hp, current)
    [] op = "REMAP" ->
         [raised |-> FALSE] @@ op_REMAP(hp, current, DictGet(step, "mapping", <<>>))
    [] OTHER -> [raised |-> TRUE, heap |-> hp, grid |-> current]

Dispatch(hp, current, step) == DispatchOn(DictGet(step, "op", "None"), hp, current, step)

RECURSIVE apply_scroll(_, _, _)
\* the rest of the loop after one step gave r; a raise leaves the loop
ApplyRest(r, rest) ==
  IF r.raised THEN r ELSE apply_scroll(r.heap, rest, r.grid)

apply_scroll(hp, scroll, g) ==
  IF scroll = <<>> THEN [raised |-> FALSE, heap |-> hp, grid |-> g]
  ELSE ApplyRest(Dispatch(hp, g, scroll[1]), Tail(scroll))

\* ------------------------------------------------------------ patcher_nova
\* palette(arr): colour -> number of cells of that colour
palette(hp, a) == [c \in np_unique(hp, a) |-> np_count(hp, a, c)]

PaletteGet(p, c) == IF c \in DOMAIN p THEN p[c] ELSE 0

\* palette_similarity as the pair <<num, den>> and the value the code returns
PaletteRatio(colors, num, den) ==
  IF colors = {} THEN FOne
  ELSE IF den > 0 THEN Frac(num, den) ELSE FOne

PaletteSums(pa, pb, cs) ==
  PaletteRatio(Range(cs),
    SumSeq([i \in 1..Len(cs) |-> Min(PaletteGet(pa, cs[i]), PaletteGet(pb, cs[i]))]),
    SumSeq([i \in 1..Len(cs) |-> Max(PaletteGet(pa, cs[i]), PaletteGet(pb, cs[i]))]))

PaletteOver(pa, pb) == PaletteSums(pa, pb, SortedSeq((DOMAIN pa) \cup (DOMAIN pb)))

palette_similarity(hp, a, b) == PaletteOver(palette(hp, a), palette(hp, b))

\* a step is a dict; the moves of the search, in the order _op_space appends them
StepROT90(k) == << <<"op", "ROT90">>, <<"k", k>> >>
StepFLIP(axis) == << <<"op", "FLIP">>, <<"axis", axis>> >>
StepTRANSPOSE == << <<"op", "TRANSPOSE">> >>
StepREMAP(mapping) == << <<"op", "REMAP">>, <<"mapping", mapping>> >>

op_space ==
  << <<StepROT90(1)>>, <<StepROT90(2)>>, <<StepROT90(3)>>,
     <<StepFLIP(0)>>, <<StepFLIP(1)>>,
     <<StepTRANSPOSE>>,
     <<StepROT90(1), StepFLIP(0)>>, <<StepROT90(1), StepFLIP(1)>>,
     <<StepROT90(2), StepFLIP(0)>>, <<StepROT90(2), StepFLIP(1)>>,
     <<StepROT90(3), StepFLIP(0)>>, <<StepROT90(3), StepFLIP(1)>> >>

\* _infer_remap: None when the numbers of distinct colours differ, else the
\* dict pairing the sorted input colours with the sorted output colours
ZipRemap(xv, yv) ==
  IF Len(xv) # Len(yv) THEN [none |-> TRUE, mapping |-> <<>>]
  ELSE [none |-> FALSE, mapping |-> [i \in 1..Len(xv) |-> <<xv[i], yv[i]>>]]

infer_remap(hp, x, y) ==
  ZipRemap(SortedSeq(np_unique(hp, x)), SortedSeq(np_unique(hp, y)))

\* "if remap0:" is false for None and for the empty dict
Truthy(remap0) == ~remap0.none /\ remap0.mapping # <<>>

\* faulty variant: weights that do not sum to one (0.7 and 0.4)
SoftScore_overweight(p_sim, shape_sim) ==
  Frac(7 * p_sim.n + 4 * shape_sim * p_sim.d, 10 * p_sim.d)

\* 0.7 * p_sim + 0.3 * shape_sim
SoftScore(p_sim, shape_sim) ==
  Frac(7 * p_sim.n + 3 * shape_sim * p_sim.d, 10 * p_sim.d)

\* the score of one pair once apply_scroll gave r: the body of score_prog's loop
PairScoreOf(r, y) ==
  IF r.raised THEN [heap |-> r.heap, score |-> FZero]
  ELSE IF Shape(r.grid.data) = Shape(y.data)
          /\ Values(r.heap, r.grid.data) = Values(r.heap, y.data)
  THEN [heap |-> r.heap, score |-> FOne]
  ELSE [heap |-> r.heap,
        score |-> SoftScore(palette_similarity(r.heap, r.grid.data, y.data),
                            IF Shape(r.grid.data) = Shape(y.data) THEN 1 ELSE 0)]

PairScore(hp, scroll, x, y) == PairScoreOf(apply_scroll(hp, scroll, x), y)

RECURSIVE ScoreLoop(_, _, _, _, _)
ScoreLoopNext(r, scroll, xs, ys, acc) ==
  ScoreLoop(r.heap, scroll, xs, ys, Append(acc, r.score))

\* the per-pair scores over zip(xs, ys), as [heap, scores]
ScoreLoop(hp, scroll, xs, ys, acc) ==
  IF xs = <<>> \/ ys = <<>> THEN [heap |-> hp, scores |-> acc]
  ELSE ScoreLoopNext(PairScore(hp, scroll, xs[1], ys[1]), scroll, Tail(xs), Tail(ys), acc)

RECURSIVE FSum(_)
FSum(fs) == IF fs = <<>> THEN FZero ELSE FAdd(fs[1], FSum(Tail(fs)))

MeanOf(total, n) == Frac(total.n, total.d * n)
Mean(fs) == MeanOf(FSum(fs), Len(fs))

\* float(np.mean(scores)) if scores else 0.0; the arrays of xs and ys are the
\* first nkeep buffers, the temporaries of the call are garbage when it returns
ScoreResult(r, nkeep) ==
  [heap |-> SubSeq(r.heap, 1, nkeep),
   score |-> IF r.scores # <<>> THEN Mean(r.scores) ELSE FZero]

score_prog(hp, scroll, xs, ys) == ScoreResult(ScoreLoop(hp, scroll, xs, ys, <<>>), Len(hp))

RECURSIVE EvalLoop(_, _, _, _, _)
\* eval_scroll's loop: "raised", or <<ok, i>> with i the first mismatching pair
EvalPair(r, hp, scroll, xs, ys, i) ==
  IF r.raised THEN [raised |-> TRUE, ok |-> FALSE, pair |-> i]
  ELSE IF Shape(r.grid.data) # Shape(ys[i].data)
          \/ ~np_array_equal(r.heap, r.grid.data, ys[i].data)
  THEN [raised |-> FALSE, ok |-> FALSE, pair |-> i]
  ELSE EvalLoop(hp, scroll, xs, ys, i + 1)

EvalLoop(hp, scroll, xs, ys, i) ==
  IF i > Len(xs) \/ i > Len(ys) THEN [raised |-> FALSE, ok |-> TRUE, pair |-> 0]
  ELSE EvalPair(apply_scroll(hp, scroll, xs[i]), hp, scroll, xs, ys, i)

RECURSIVE GridsFromLists(_, _)
\* [Grid.from_list(l) for l in lists], as [heap, grids]
GridsCons(g, rest) == [heap |-> rest.heap, grids |-> <<g>> \o rest.grids]
GridsAfter(g, lists) == GridsCons(g.grid, GridsFromLists(g.heap, lists))

GridsFromLists(hp, lists) ==
  IF lists = <<>> THEN [heap |-> hp, grids |-> <<>>]
  ELSE GridsAfter(Grid_from_list(hp, lists[1]), Tail(lists))

Inputs(pairs) == [i \in 1..Len(pairs) |-> pairs[i].input]
Outputs(pairs) == [i \in 1..Len(pairs) |-> pairs[i].output]

EvalOn(gx, gy, scroll) == EvalLoop(gy.heap, scroll, gx.grids, gy.grids, 1)
EvalWithInputs(gx, scroll, pairs) ==
  EvalOn(gx, GridsFromLists(gx.heap, Outputs(pairs)), scroll)

eval_scroll(scroll, pairs) ==
  EvalWithInputs(GridsFromLists(<<>>, Inputs(pairs)), scroll, pairs)

\* ------------------------------------------------------- the de-duplication key
\* Python orders the item tuples by their key strings
KeyRank(k) ==
  CASE k = "axis" -> 1 [] k = "k" -> 2 [] k = "mapping" -> 3 [] k = "op" -> 4

\* tuple(sorted(step.items()))
SortedItems(step) ==
  [i \in 1..Len(step) |->
     step[CHOOSE j \in 1..Len(step) :
            Cardinality({m \in 1..Len(step) : KeyRank(step[m][1]) < KeyRank(step[j][1])}) = i - 1]]

\* tuple((step['op'], tuple(sorted(step.items()))) for step in new_prog)
ScrollKey(prog) ==
  [i \in 1..Len(prog) |-> <<DictGet(prog[i], "op", "None"), SortedItems(prog[i])>>]

\* hashing the key hashes every item value; a dict value raises TypeError
Unhashable(prog) == \E i \in 1..Len(prog) : "mapping" \in DictKeys(prog[i])

\* faulty variant: the membership test never finds the key
IsSeen_never(key, sn) == FALSE

IsSeen(key, sn) == key \in sn

\* ------------------------------------------------- list.sort(reverse=True)
\* stable: among equal scores the earlier element stays first
InsertAt(sorted, e, k) ==
  SubSeq(sorted, 1, k) \o <<e>> \o SubSeq(sorted, k + 1, Len(sorted))

\* faulty variant: an element goes ahead of the earlier elements of equal score
InsertDesc_unstable(sorted, e) ==
  InsertAt(sorted, e, Cardinality({i \in 1..Len(sorted) : FLess(e.score, sorted[i].score)}))

InsertDesc(sorted, e) ==
  InsertAt(sorted, e, Cardinality({i \in 1..Len(sorted) : FLeq(e.score, sorted[i].score)}))

RECURSIVE SortFrom(_, _)
SortFrom(acc, rest) ==
  IF rest = <<>> THEN acc ELSE SortFrom(InsertDesc(acc, rest[1]), Tail(rest))

\* faulty variant: reverse=True left out, the sort is ascending
SortDesc_ascending(lst) ==
  [i \in 1..Len(lst) |-> SortFrom(<<>>, lst)[Len(lst) + 1 - i]]

SortDesc(lst) == SortFrom(<<>>, lst)

\* next_pool.sort(...); pool = next_pool[:beam]
NextBeam(np, bm) == Take(SortDesc(np), bm)

\* ------------------------------------------------------ enumerated inputs
\* grids of one or two cells over two colours, as lists of rows
Colors == {1, 2}
ShapeSet == {<<1, 1>>, <<1, 2>>, <<2, 1>>}
GridLists == UNION {[1..s[1] -> [1..s[2] -> Colors]] : s \in ShapeSet}

\* y is x rotated 90 degrees counter-clockwise once
IsRot90CCW(x, y) ==
  /\ Len(y) = Len(x[1]) /\ Len(y[1]) = Len(x)
  /\ \A i \in 1..Len(y) : \A j \in 1..Len(y[1]) : y[i][j] = x[j][Len(x[1]) + 1 - i]

\* y is x with every colour c replaced by f[c]
IsRecolor(f, x, y) ==
  /\ Len(y) = Len(x) /\ Len(y[1]) = Len(x[1])
  /\ \A i \in 1..Len(x) : \A j \in 1..Len(x[1]) : y[i][j] = f[x[i][j]]

ColorPerms == {f \in [Colors -> Colors] : \A a, b \in Colors : f[a] = f[b] => a = b}

\* a task of one pair is any input with any output; the pairs of a longer
\* task share a target: the rotation or a recolouring (the identity among them)
SharedTargets == {[kind |-> "rot"]} \cup {[kind |-> "perm", f |-> f] : f \in ColorPerms}

TargetOf(t, x) ==
  CASE t.kind = "rot" -> CHOOSE y \in GridLists : IsRot90CCW(x, y)
    [] OTHER -> [i \in 1..Len(x) |-> [j \in 1..Len(x[1]) |-> t.f[x[i][j]]]]

InputSeqs == UNION {[1..n -> GridLists] : n \in 1..MaxPairs}

Tasks ==
  {<<[input |-> x, output |-> y]>> : x \in GridLists, y \in GridLists}
  \cup {[i \in 1..Len(q) |-> [input |-> q[i], output |-> TargetOf(t, q[i])]] :
          q \in InputSeqs, t \in SharedTargets}

\* steps given to apply_scroll by a caller: defaults left out, the items in
\* another order, a negative and a large k, a bad axis, an unknown and a
\* missing op
SwapMapping == << <<1, 2>>, <<2, 1>> >>
CallerSteps ==
  { StepROT90(1), StepROT90(-1), StepROT90(6),
    << <<"op", "ROT90">> >>, << <<"k", 2>>, <<"op", "ROT90">> >>,
    StepFLIP(0), StepFLIP(1), << <<"op", "FLIP">> >>, StepFLIP(2),
    StepTRANSPOSE, StepREMAP(SwapMapping), << <<"op", "REMAP">> >>,
    << <<"op", "NOP">> >>, << <<"k", 1>> >> }
CallerScrolls == UNION {[1..n -> CallerSteps] : n \in 0..MaxLen}

\* the log of a Grid an earlier call returned
CallerLogs == {<<>>, << <<"TRANSPOSE">> >>}

ScoredSteps == {StepROT90(1), StepFLIP(2), StepTRANSPOSE, StepREMAP(SwapMapping)}
ScoredScrolls == UNION {[1..n -> ScoredSteps] : n \in 0..MaxLen}

\* ------------------------------------------------------------------- state
VARIABLES
  pc,           \* where the call is: "call", "loop", "apply", "score",
                \* "done" (returned), "raised"
  train_pairs, beam, depth,      \* the arguments of synthesize_scroll
  heap,                          \* the buffers of the live arrays
  xs, ys,                        \* the Grids of the training pairs
  pool, next_pool, seen,         \* the beam, the next generation, the seen keys
  d, pi, oi,                     \* round, index in pool, index in op_lib
  gen,                           \* the last generation before its sort
  scored,                        \* every (prog, score) scored, in order
  scroll, lst, g,                \* apply_scroll / score_prog: the scroll, the
                                 \* list g was built from, the Grid g
  current, ip,                   \* apply_scroll's current Grid; the loop index
  scores,                        \* score_prog's list of pair scores
  result                         \* the value the call returned

searchVars == <<train_pairs, beam, depth, xs, ys, pool, next_pool, seen,
                d, pi, oi, gen, scored>>
callVars == <<scroll, lst, g, current, ip, scores>>
vars == <<pc, heap, result, searchVars, callVars>>

NoGrid == [data |-> [buf |-> 0, h |-> 0, w |-> 0, off |-> <<>>], log |-> <<>>]

SearchIdle ==
  /\ pool = <<>> /\ next_pool = <<>> /\ seen = {}
  /\ d = 0 /\ pi = 1 /\ oi = 1
  /\ gen = <<>> /\ scored = <<>>

CallIdle ==
  /\ scroll = <<>> /\ lst = <<>> /\ g = NoGrid /\ current = NoGrid
  /\ ip = 1 /\ scores = <<>>

\* ------------------------------------------------------- synthesize_scroll
Init ==
  /\ pc = "call"
  /\ train_pairs \in Tasks
  /\ beam \in 1..MaxBeam
  /\ depth \in 0..MaxDepth
  /\ heap = <<>> /\ xs = <<>> /\ ys = <<>>
  /\ SearchIdle /\ CallIdle
  /\ result = <<>>

\* the seeds: the identity scroll, and the REMAP scroll when remap0 is truthy
SeedPool(gx, gy, remap0, s0, s1) ==
  /\ xs' = gx.grids /\ ys' = gy.grids
  /\ IF Truthy(remap0)
     THEN /\ heap' = s1.heap
          /\ pool' = <<[prog |-> <<>>, score |-> s0.score],
                       [prog |-> <<StepREMAP(remap0.mapping)>>, score |-> s1.score]>>
          /\ scored' = <<[prog |-> <<>>, score |-> s0.score, by |-> "seed"],
                         [prog |-> <<StepREMAP(remap0.mapping)>>, score |-> s1.score,
                          by |-> "seed"]>>
     ELSE /\ heap' = s0.heap
          /\ pool' = <<[prog |-> <<>>, score |-> s0.score]>>
          /\ scored' = <<[prog |-> <<>>, score |-> s0.score, by |-> "seed"]>>

SeedScores(gx, gy, remap0, s0) ==
  SeedPool(gx, gy, remap0, s0,
           score_prog(s0.heap, <<StepREMAP(remap0.mapping)>>, gx.grids, gy.grids))

SeedGrids(gx, gy) ==
  SeedScores(gx, gy, infer_remap(gy.heap, gx.grids[1].data, gy.grids[1].data),
             score_prog(gy.heap, <<>>, gx.grids, gy.grids))

SeedInputs(gx) == SeedGrids(gx, GridsFromLists(gx.heap, Outputs(train_pairs)))

\* synthesize_scroll up to the expansion loop: the Grids, the seeds
Seed ==
  /\ pc = "call"
  /\ SeedInputs(GridsFromLists(<<>>, Inputs(train_pairs)))
  /\ pc' = "loop"
  /\ UNCHANGED <<train_pairs, beam, depth, next_pool, seen, d, pi, oi, gen>>
  /\ UNCHANGED <<result, callVars>>

NewProg == pool[pi].prog \o op_space[oi]

InLoop == pc = "loop" /\ d < depth /\ pi <= Len(pool)

\* faulty variant: the parents stay in the beam (pool = (pool + next_pool)[:beam])
Advance_keep(np) ==
  IF oi < Len(op_space)
  THEN oi' = oi + 1 /\ next_pool' = np /\ UNCHANGED <<pi, pool, d, gen>>
  ELSE IF pi < Len(pool)
  THEN oi' = 1 /\ pi' = pi + 1 /\ next_pool' = np /\ UNCHANGED <<pool, d, gen>>
  ELSE /\ pool' = NextBeam(pool \o np, beam) /\ gen' = np /\ d' = d + 1
       /\ pi' = 1 /\ oi' = 1 /\ next_pool' = <<>>

\* the loop counters after one inner iteration that leaves next_pool = np;
\* after the last one the generation is sorted and cut to the beam
Advance(np) ==
  IF oi < Len(op_space)
  THEN oi' = oi + 1 /\ next_pool' = np /\ UNCHANGED <<pi, pool, d, gen>>
  ELSE IF pi < Len(pool)
  THEN oi' = 1 /\ pi' = pi + 1 /\ next_pool' = np /\ UNCHANGED <<pool, d, gen>>
  ELSE /\ pool' = NextBeam(np, beam) /\ gen' = np /\ d' = d + 1
       /\ pi' = 1 /\ oi' = 1 /\ next_pool' = <<>>

\* "key in seen" raises TypeError: a REMAP step's mapping is a dict
Raise ==
  /\ InLoop
  /\ Unhashable(NewProg)
  /\ pc' = "raised"
  /\ UNCHANGED <<heap, result, searchVars, callVars>>

\* "if key in seen: continue"
Skip ==
  /\ InLoop
  /\ ~Unhashable(NewProg)
  /\ IsSeen(ScrollKey(NewProg), seen)
  /\ Advance(next_pool)
  /\ UNCHANGED <<pc, train_pairs, beam, depth, heap, xs, ys, seen, scored>>
  /\ UNCHANGED <<result, callVars>>

Scored(new_prog, s) ==
  /\ heap' = s.heap
  /\ seen' = seen \cup {ScrollKey(new_prog)}
  /\ scored' = Append(scored, [prog |-> new_prog, score |-> s.score, by |-> "loop"])
  /\ Advance(Append(next_pool, [prog |-> new_prog, score |-> s.score]))

\* seen.add(key); next_pool.append((new_prog, score_prog(new_prog, xs, ys)))
Score ==
  /\ InLoop
  /\ ~Unhashable(NewProg)
  /\ ~IsSeen(ScrollKey(NewProg), seen)
  /\ Scored(NewProg, score_prog(heap, NewProg, xs, ys))
  /\ UNCHANGED <<pc, train_pairs, beam, depth, xs, ys>>
  /\ UNCHANGED <<result, callVars>>

\* pool.sort(...); return pool[0][0] if pool else []
Return ==
  /\ pc = "loop" /\ d = depth
  /\ pool' = SortDesc(pool)
  /\ result' = IF pool' # <<>> THEN pool'[1].prog ELSE <<>>
  /\ pc' = "done"
  /\ UNCHANGED <<train_pairs, beam, depth, heap, xs, ys, next_pool, seen,
                 d, pi, oi, gen, scored>>
  /\ UNCHANGED callVars

Next == Seed \/ Raise \/ Skip \/ Score \/ Return

Spec == Init /\ [][Next]_vars

\* ------------------------------------------------------------ apply_scroll
\* a caller holds a Grid g (built from the list lst, with some log) and
\* calls apply_scroll(scroll, g)
ApplyCall(c, log) ==
  /\ heap = c.heap
  /\ g = [data |-> c.arr, log |-> log]
  /\ current = g

ApplyInit ==
  /\ pc = "apply"
  /\ scroll \in CallerScrolls
  /\ lst \in GridLists
  /\ \E log \in CallerLogs : ApplyCall(np_array(<<>>, lst), log)
  /\ ip = 1 /\ scores = <<>>
  /\ train_pairs = <<>> /\ beam = 1 /\ depth = 0 /\ xs = <<>> /\ ys = <<>>
  /\ SearchIdle
  /\ result = NoGrid

Stepped(r) == heap' = r.heap /\ current' = r.grid

\* one iteration of the loop over the steps
ApplyStep ==
  /\ pc = "apply" /\ ip <= Len(scroll)
  /\ ~Dispatch(heap, current, scroll[ip]).raised
  /\ Stepped(Dispatch(heap, current, scroll[ip]))
  /\ ip' = ip + 1
  /\ UNCHANGED <<pc, result, searchVars, scroll, lst, g, scores>>

\* op_FLIP's or apply_scroll's ValueError leaves the call
ApplyRaise ==
  /\ pc = "apply" /\ ip <= Len(scroll)
  /\ Dispatch(heap, current, scroll[ip]).raised
  /\ pc' = "raised"
  /\ UNCHANGED <<heap, result, searchVars, callVars>>

ApplyReturn ==
  /\ pc = "apply" /\ ip > Len(scroll)
  /\ result' = current
  /\ pc' = "done"
  /\ UNCHANGED <<heap, searchVars, callVars>>

ApplyNext == ApplyStep \/ ApplyRaise \/ ApplyReturn

SpecApply == ApplyInit /\ [][ApplyNext]_vars

\* -------------------------------------------------------------- score_prog
\* score_prog(scroll, xs, ys) on the Grids of a task's pairs, or of no pair
ScoreCall(gx, gy) == heap = gy.heap /\ xs = gx.grids /\ ys = gy.grids
ScoreCallOn(gx) == ScoreCall(gx, GridsFromLists(gx.heap, Outputs(train_pairs)))

ScoreInit ==
  /\ pc = "score"
  /\ scroll \in ScoredScrolls
  /\ train_pairs \in Tasks \cup {<<>>}
  /\ ScoreCallOn(GridsFromLists(<<>>, Inputs(train_pairs)))
  /\ ip = 1 /\ scores = <<>>
  /\ lst = <<>> /\ g = NoGrid /\ current = NoGrid
  /\ beam = 1 /\ depth = 0
  /\ SearchIdle
  /\ result = FZero

PairScored(r) == heap' = r.heap /\ scores' = Append(scores, r.score)

\* one iteration of the loop over zip(xs, ys), the except branch included
ScorePair ==
  /\ pc = "score" /\ ip <= Len(xs) /\ ip <= Len(ys)
  /\ PairScored(PairScore(heap, scroll, xs[ip], ys[ip]))
  /\ ip' = ip + 1
  /\ UNCHANGED <<pc, result, searchVars, scroll, lst, g, current>>

ScoreReturned(r) == heap' = r.heap /\ result' = r.score

ScoreReturn ==
  /\ pc = "score" /\ (ip > Len(xs) \/ ip > Len(ys))
  /\ ScoreReturned(ScoreResult([heap |-> heap, scores |-> scores], 2 * Len(train_pairs)))
  /\ pc' = "done"
  /\ UNCHANGED <<searchVars, callVars>>

ScoreNext == ScorePair \/ ScoreReturn

SpecScore == ScoreInit /\ [][ScoreNext]_vars

\* ------------------------------------------------------------------ claims
Returned == pc = "done"

\* every output is its input rotated 90 degrees counter-clockwise once
Rot90Task ==
  /\ train_pairs # <<>>
  /\ \A i \in 1..Len(train_pairs) :
       IsRot90CCW(train_pairs[i].input, train_pairs[i].output)

\* every output is its input under one bijection of the colours
PermTask ==
  /\ train_pairs # <<>>
  /\ \E f \in ColorPerms : \A i \in 1..Len(train_pairs) :
       IsRecolor(f, train_pairs[i].input, train_pairs[i].output)

ExactOnPairs(prog) ==
  ~eval_scroll(prog, train_pairs).raised /\ eval_scroll(prog, train_pairs).ok

\* the score of a scroll on the training pairs of the search
ScoreOf(prog) == score_prog(heap, prog, xs, ys).score

\* C1: on rotation tasks a search of depth >= 1 ends by returning a scroll
\* that reproduces every output exactly, and eval_scroll reports success.
C1_Rot90Solved ==
  (Rot90Task /\ depth >= 1 /\ pc \in {"done", "raised"})
    => (Returned /\ ExactOnPairs(result))

\* C2: on colour-permutation tasks the seeded REMAP scroll (the second seed)
\* scores 1.0 and eval_scroll reports success for it.
C2_RemapSeedExact ==
  (pc = "loop" /\ d = 0 /\ PermTask)
    => /\ Len(pool) = 2
       /\ pool[2].score = FOne
       /\ ExactOnPairs(pool[2].prog)

\* C3: the search never raises: a failure on one candidate only lowers its score.
C3_NeverRaises == pc # "raised"

\* C4: the seeded beam and the beam after every round hold at most beam candidates.
C4_BeamBounded == pc \in {"loop", "done"} => Len(pool) <= beam

\* C5: the returned scroll scores at least as much as every candidate scored
\* during the search, the seeds and the earlier rounds included.
C5_ReturnsBestScored ==
  Returned => \A i \in 1..Len(scored) : FLeq(scored[i].score, ScoreOf(result))

C5_Witness ==
  /\ Returned /\ depth >= 2
  /\ \E i \in 1..Len(scored) : FLess(scored[i].score, ScoreOf(result))
  /\ \E i \in 1..Len(scored) :
       scored[i].by = "loop" /\ Len(scored[i].prog) = 1
       /\ scored[i].score = ScoreOf(result)

\* the scrolls the expansion loop scored, in order
LoopScored == SelectSeq(scored, LAMBDA e : e.by = "loop")

\* the same steps: the same kinds and parameter values, step by step
SameSteps(a, b) ==
  /\ Len(a) = Len(b)
  /\ \A i \in 1..Len(a) : Range(a[i]) = Range(b[i])

C8_State ==
  /\ \A i \in 1..(Len(LoopScored) - 1) :
       /\ ~SameSteps(LoopScored[i].prog, LoopScored[Len(LoopScored)].prog)
       /\ ScrollKey(LoopScored[i].prog) # ScrollKey(LoopScored[Len(LoopScored)].prog)
  /\ seen = {ScrollKey(LoopScored[i].prog) : i \in 1..Len(LoopScored)}
  /\ (InLoop /\ ~Unhashable(NewProg))
       => (IsSeen(ScrollKey(NewProg), seen)
             <=> \E i \in 1..Len(LoopScored) : SameSteps(LoopScored[i].prog, NewProg))

\* C8: the loop scores no scroll twice: the seen set is exactly the keys of
\* the scrolls scored so far, a scroll is skipped iff a scroll of the same
\* steps was scored before (however it was composed), and seen only grows.
C8_NoRescoring == [](C8_State) /\ [][seen \subseteq seen']_vars

\* a two-step move is met again as two single moves, and skipped
C8_Witness ==
  /\ InLoop /\ d = 1
  /\ NewProg = <<StepROT90(1), StepFLIP(0)>>
  /\ Len(op_space[oi]) = 1
  /\ IsSeen(ScrollKey(NewProg), seen)

ScoredIdx(prog) == CHOOSE i \in 1..Len(scored) : scored[i].prog = prog

\* a stands ahead of b: a higher score, or the same score and scored earlier
Ahead(a, b) ==
  \/ FLess(b.score, a.score)
  \/ a.score = b.score /\ ScoredIdx(a.prog) < ScoredIdx(b.prog)

\* C9: after each round the beam is the generation's first beam candidates by
\* score, equal scores in scoring order, and the returned scroll is the first
\* of the final beam: the top score, scored first among its equals.
C9_StableBest ==
  /\ (pc \in {"loop", "done"} /\ d >= 1) =>
       /\ Len(pool) = Min(beam, Len(gen))
       /\ \A i \in 1..Len(pool) : \E j \in 1..Len(gen) : gen[j] = pool[i]
       /\ \A i, j \in 1..Len(pool) : i < j => Ahead(pool[i], pool[j])
       /\ \A j \in 1..Len(gen) :
            (\A i \in 1..Len(pool) : pool[i] # gen[j])
              => \A i \in 1..Len(pool) : Ahead(pool[i], gen[j])
  /\ Returned =>
       /\ pool # <<>> /\ result = pool[1].prog
       /\ \A i \in 2..Len(pool) : Ahead(pool[1], pool[i])

\* the top score is shared in the final beam, and the cut dropped a candidate
\* that scored as much as one it kept
C9_Witness ==
  /\ Returned /\ depth >= 1 /\ Len(pool) >= 2
  /\ pool[1].score = pool[2].score
  /\ \E j \in 1..Len(gen) :
       /\ \A i \in 1..Len(pool) : pool[i] # gen[j]
       /\ gen[j].score = pool[Len(pool)].score

RECURSIVE IsMoves(_, _)
\* s is r moves of the move set, one after the other
IsMoves(s, r) ==
  IF r = 0 THEN s = <<>>
  ELSE \E m \in Range(op_space) :
         /\ Len(m) <= Len(s)
         /\ SubSeq(s, Len(s) - Len(m) + 1, Len(s)) = m
         /\ IsMoves(SubSeq(s, 1, Len(s) - Len(m)), r - 1)

IsRemapStep(step) == DictGet(step, "op", "None") = "REMAP"

IsSeedPlusMoves(s, r) ==
  \/ IsMoves(s, r)
  \/ s # <<>> /\ IsRemapStep(s[1]) /\ IsMoves(Tail(s), r)

\* C10: after r >= 1 rounds every scroll of the beam is a seed followed by
\* exactly r moves; a search of depth >= 1 returns a scroll of at least depth
\* steps, never the identity scroll nor the bare REMAP seed.
C10_BeamIsLastGeneration ==
  /\ (pc \in {"loop", "done"} /\ d >= 1) =>
       \A i \in 1..Len(pool) : IsSeedPlusMoves(pool[i].prog, d)
  /\ (Returned /\ depth >= 1) =>
       /\ Len(result) >= depth
       /\ result # <<>>
       /\ ~(Len(result) = 1 /\ IsRemapStep(result[1]))

\* the identity seed scored as much as the returned scroll and is not returned
C10_Witness ==
  /\ Returned /\ depth >= 2
  /\ scored[1].prog = <<>>
  /\ scored[1].score = ScoreOf(result)
  /\ Len(result) >= depth

\* the descriptor a valid step appends
ExpectedDescriptor(step) ==
  CASE DictGet(step, "op", "None") = "ROT90" -> <<"ROT90", DictGet(step, "k", 1) % 4>>
    [] DictGet(step, "op", "None") = "FLIP" -> <<"FLIP", DictGet(step, "axis", 1)>>
    [] DictGet(step, "op", "None") = "TRANSPOSE" -> <<"TRANSPOSE">>
    [] OTHER -> <<"REMAP", DictGet(step, "mapping", <<>>)>>

\* C7: apply_scroll returns a Grid whose log is g's log followed by one
\* descriptor per step, in step order, and leaves g's cells and log alone;
\* an empty scroll returns the same cells, shape and log.
C7_LogAndImmutability ==
  Returned =>
    /\ Len(result.log) = Len(g.log) + Len(scroll)
    /\ SubSeq(result.log, 1, Len(g.log)) = g.log
    /\ \A i \in 1..Len(scroll) :
         result.log[Len(g.log) + i] = ExpectedDescriptor(scroll[i])
    /\ Grid_to_list(heap, g) = lst
    /\ scroll = <<>> =>
         /\ result.log = g.log
         /\ Shape(result.data) = Shape(g.data)
         /\ Grid_to_list(heap, result) = lst

\* a two-step scroll with a REMAP that changes cells, on a Grid with a log
C7_Witness ==
  /\ Returned /\ Len(scroll) = 2 /\ g.log # <<>>
  /\ \E i \in 1..2 : IsRemapStep(scroll[i])
  /\ \E i \in 1..2 : ~IsRemapStep(scroll[i])
  /\ Grid_to_list(heap, result) # lst

\* C6: score_prog returns a value in [0, 1]: 1.0 when the scroll reproduces
\* every output of a non-empty list of pairs, 0.0 when there is no pair.
C6_ScoreBounds ==
  Returned =>
    /\ FLeq(FZero, result) /\ FLeq(result, FOne)
    /\ (train_pairs # <<>> /\ ExactOnPairs(scroll)) => result = FOne
    /\ train_pairs = <<>> => result = FZero

\* a score strictly inside (0, 1), from a scroll that ran on a pair it misses
C6_Witness ==
  /\ Returned /\ train_pairs # <<>> /\ scroll # <<>>
  /\ ~ExactOnPairs(scroll)
  /\ FLess(FZero, result) /\ FLess(result, FOne)

====
